---- MODULE Spec2Model ----
(***************************************************************************)
(* Arithmetic gadgets of halo2-circuit-examples: RangeCheck, IsZero and    *)
(* IsEqual.  Each test circuit is configured (its gate registered), then   *)
(* synthesized (cells written through the region API), then verified by   *)
(* the mock prover (every gate evaluated on every row).                    *)
(*                                                                         *)
(* The field is a prime field Z_Fp.  The source uses bn256::Fr; the model  *)
(* ranges over the small primes above MaxRange, so that, as in the source, *)
(* every integer 0..RANGE has its own field encoding.                      *)
(***************************************************************************)
EXTENDS Integers, FiniteSets, Sequences, TLC

\* Largest RANGE const-generic argument explored.
MaxRange == 8
\* Field moduli explored are the primes in MaxRange+1 .. MaxPrime.
MaxPrime == 13

VARIABLES
    circuit,   \* the test circuit run: [name, RANGE]
    Fp,        \* the field modulus
    input,     \* the circuit's private inputs (fields of the circuit struct)
    pc,        \* position in synthesize / the mock prover
    advice,    \* advice[col][row]: advice cells (unassigned cells read as 0)
    fixed,     \* fixed[row]: the cells of IsEqual's fixed column `zero`
    enabled,   \* rows on which the circuit's gate selector is enabled
    copied,    \* TRUE once the out cell is copy-constrained to the instance
    errors,    \* region calls that returned Err so far
    result,    \* what synthesize returned: "none", "Ok", "Err"
    honest,    \* FALSE once a cell was written by someone else than synthesize
    verdict    \* what MockProver::verify returned: "none", "ok", "err"

vars == <<circuit, Fp, input, pc, advice, fixed, enabled, copied, errors,
          result, honest, verdict>>

----------------------------------------------------------------------------
\* The field

IsPrime(n) == n > 1 /\ \A d \in 2..(n - 1) : n % d # 0

Fields == {n \in (MaxRange + 1)..MaxPrime : IsPrime(n)}

Elems == 0..(Fp - 1)

Add(x, y) == (x + y) % Fp
Sub(x, y) == (x - y) % Fp
Mul(x, y) == (x * y) % Fp

RECURSIVE Pow(_, _)
Pow(b, e) == IF e = 0 THEN 1 ELSE Mul(b, Pow(b, e - 1))

\* F::from(i as u64)
FromU64(i) == i % Fp

\* Mutant: inversion replaced by x^(p-1) (exponent off by one).
invert_mut(v) == Pow(v, Fp - 1)

\* value.into_field().invert(), evaluated: x^(p-2), which is 0 at 0.
invert(v) == Pow(v, Fp - 2)

----------------------------------------------------------------------------
\* The layout

Rows == {0, 1}
Cols == {"value", "value_inv", "a", "b"}

\* vec![vec![Fp::from(1)]]: the instance column of the IsZero test.
Instance == <<1>>

RANGE == circuit.RANGE

\* meta.query_selector(q) at a row.
q(row) == IF row \in enabled THEN 1 ELSE 0

----------------------------------------------------------------------------
\* RangeCheck

RECURSIVE range_fold(_, _, _, _)
range_fold(expr, i, hi, value) ==
    IF i >= hi THEN expr
    ELSE range_fold(Mul(expr, Sub(FromU64(i), value)), i + 1, hi, value)

\* Mutant: the fold runs over 1..=range.
range_check_incl(range, value) == range_fold(value, 1, range + 1, value)

\* Mutant: the raw value is witnessed.
range_check_raw(range, value) == value

\* The closure range_check of assign: value * (1 - value) * ... * (range-1 - value).
range_check(range, value) == range_fold(value, 1, range, value)

\* The gate "range check": q * value.
RangeCheckGate(row) == Mul(q(row), advice["value"][row])

----------------------------------------------------------------------------
\* IsZero

\* Mutant: the product with value is forgotten.
is_zero_expression_mut(row) == Sub(1, advice["value_inv"][row])

\* is_zero_expression = 1 - value * value_inv.
is_zero_expression(row) ==
    Sub(1, Mul(advice["value"][row], advice["value_inv"][row]))

\* Mutant: the gate multiplies by value_inv instead of value.
IsZeroGate_mut(row) ==
    Mul(Mul(q(row), advice["value_inv"][row]), is_zero_expression(row))

\* The gate "is_zero gate": q_enable * value * is_zero_expression.
IsZeroGate(row) ==
    Mul(Mul(q(row), advice["value"][row]), is_zero_expression(row))

----------------------------------------------------------------------------
\* IsEqual

\* Mutant: a sign slip in the gate.
IsEqualGate_mut(row) ==
    Mul(q(row), Sub(Add(advice["a"][row], advice["b"][row]), fixed[row]))

\* The gate "is_equal gate": selector * (a - b - zero).
IsEqualGate(row) ==
    Mul(q(row), Sub(Sub(advice["a"][row], advice["b"][row]), fixed[row]))

----------------------------------------------------------------------------
\* The mock prover

Gate(row) ==
    CASE circuit.name = "RangeCheck" -> RangeCheckGate(row)
      [] circuit.name = "IsZero"     -> IsZeroGate(row)
      [] circuit.name = "IsEqual"    -> IsEqualGate(row)

GatesSatisfied == \A row \in Rows : Gate(row) = 0

CopiesSatisfied == copied => advice["value"][1] = Instance[1]

----------------------------------------------------------------------------
\* Initial state: the circuit is configured, nothing is assigned.

Circuits ==
    {[name |-> "RangeCheck", RANGE |-> r] : r \in 1..MaxRange}
        \cup {[name |-> "IsZero", RANGE |-> 1], [name |-> "IsEqual", RANGE |-> 1]}

Inputs(c, m) ==
    IF c.name = "IsEqual"
    THEN {[a |-> x, b |-> y] : x \in 0..(m - 1), y \in 0..(m - 1)}
    ELSE {[value |-> x] : x \in 0..(m - 1)}

Init ==
    /\ circuit \in Circuits
    /\ Fp \in Fields
    /\ input \in Inputs(circuit, Fp)
    /\ pc = "enable"
    /\ advice = [c \in Cols |-> [r \in Rows |-> 0]]
    /\ fixed = [r \in Rows |-> 0]
    /\ enabled = {}
    /\ copied = FALSE
    /\ errors = {}
    /\ result = "none"
    /\ honest = TRUE
    /\ verdict = "none"

----------------------------------------------------------------------------
\* A region call that returned Err: with `?` the closure, and synthesize with
\* it, returns that error at once.

Propagate(step) ==
    /\ errors' = errors \cup {step}
    /\ result' = "Err"
    /\ pc' = "returned"

----------------------------------------------------------------------------
\* MyCircuit::synthesize -> RangeCheckConfig::assign

\* self.q_range_check.enable(&mut region, offset)?
RangeCheckEnable ==
    /\ circuit.name = "RangeCheck"
    /\ pc = "enable"
    /\ \E ok \in BOOLEAN :
         IF ok
         THEN /\ enabled' = enabled \cup {0}
              /\ pc' = "assign_value"
              /\ UNCHANGED <<errors, result>>
         ELSE /\ Propagate("enable")
              /\ UNCHANGED enabled
    /\ UNCHANGED <<circuit, Fp, input, advice, fixed, copied, honest, verdict>>

\* region.assign_advice(|| "value", self.value, offset, || range_check(RANGE, value))
RangeCheckAssign ==
    /\ circuit.name = "RangeCheck"
    /\ pc = "assign_value"
    /\ \E ok \in BOOLEAN :
         IF ok
         THEN /\ advice' = [advice EXCEPT !["value"][0] = range_check(RANGE, input.value)]
              /\ result' = "Ok"
              /\ pc' = "returned"
              /\ UNCHANGED errors
         ELSE /\ Propagate("value")
              /\ UNCHANGED advice
    /\ UNCHANGED <<circuit, Fp, input, fixed, enabled, copied, honest, verdict>>

----------------------------------------------------------------------------
\* row_diff_is_zero: TestCircuit::synthesize

\* config.q_enable.enable(&mut region, 0)?
IsZeroEnable ==
    /\ circuit.name = "IsZero"
    /\ pc = "enable"
    /\ \E ok \in BOOLEAN :
         IF ok
         THEN /\ enabled' = enabled \cup {0}
              /\ pc' = "assign_value"
              /\ UNCHANGED <<errors, result>>
         ELSE /\ Propagate("enable")
              /\ UNCHANGED enabled
    /\ UNCHANGED <<circuit, Fp, input, advice, fixed, copied, honest, verdict>>

\* region.assign_advice(|| "value", config.value, 0, || v.clone())?
IsZeroAssignValue ==
    /\ circuit.name = "IsZero"
    /\ pc = "assign_value"
    /\ \E ok \in BOOLEAN :
         IF ok
         THEN /\ advice' = [advice EXCEPT !["value"][0] = input.value]
              /\ pc' = "chip_assign"
              /\ UNCHANGED <<errors, result>>
         ELSE /\ Propagate("value")
              /\ UNCHANGED advice
    /\ UNCHANGED <<circuit, Fp, input, fixed, enabled, copied, honest, verdict>>

\* chip.assign(&mut region, 0, v.clone())?  (IsZeroChip::assign)
IsZeroChipAssign ==
    /\ circuit.name = "IsZero"
    /\ pc = "chip_assign"
    /\ \E ok \in BOOLEAN :
         IF ok
         THEN /\ advice' = [advice EXCEPT !["value_inv"][0] = invert(input.value)]
              /\ pc' = "assign_out"
              /\ UNCHANGED <<errors, result>>
         ELSE /\ Propagate("value_inv")
              /\ UNCHANGED advice
    /\ UNCHANGED <<circuit, Fp, input, fixed, enabled, copied, honest, verdict>>

\* region.assign_advice(|| "instance", config.value, 1, || is_zero)
IsZeroAssignOut ==
    /\ circuit.name = "IsZero"
    /\ pc = "assign_out"
    /\ \E ok \in BOOLEAN :
         IF ok
         THEN /\ advice' = [advice EXCEPT
                              !["value"][1] = IF input.value # 0 THEN 0 ELSE 1]
              /\ pc' = "constrain_instance"
              /\ UNCHANGED <<errors, result>>
         ELSE /\ Propagate("out")
              /\ UNCHANGED advice
    /\ UNCHANGED <<circuit, Fp, input, fixed, enabled, copied, honest, verdict>>

\* layouter.constrain_instance(out.cell(), config.instance, 0)
IsZeroConstrainInstance ==
    /\ circuit.name = "IsZero"
    /\ pc = "constrain_instance"
    /\ \E ok \in BOOLEAN :
         IF ok
         THEN /\ copied' = TRUE
              /\ result' = "Ok"
              /\ pc' = "returned"
              /\ UNCHANGED errors
         ELSE /\ Propagate("constrain_instance")
              /\ UNCHANGED copied
    /\ UNCHANGED <<circuit, Fp, input, advice, fixed, enabled, honest, verdict>>

----------------------------------------------------------------------------
\* is_equal_1: TestCircuit::synthesize

\* let _ = chip.config.q_enable.enable(&mut region, 0);
IsEqualEnable ==
    /\ circuit.name = "IsEqual"
    /\ pc = "enable"
    /\ \E ok \in BOOLEAN :
         IF ok
         THEN /\ enabled' = enabled \cup {0}
              /\ UNCHANGED errors
         ELSE /\ errors' = errors \cup {"enable"}
              /\ UNCHANGED enabled
    /\ pc' = "assign_a"
    /\ UNCHANGED <<circuit, Fp, input, advice, fixed, copied, result, honest, verdict>>

\* region.assign_advice(|| "a", chip.config.a, 0, || self.a)?
IsEqualAssignA ==
    /\ circuit.name = "IsEqual"
    /\ pc = "assign_a"
    /\ \E ok \in BOOLEAN :
         IF ok
         THEN /\ advice' = [advice EXCEPT !["a"][0] = input.a]
              /\ pc' = "assign_b"
              /\ UNCHANGED <<errors, result>>
         ELSE /\ Propagate("a")
              /\ UNCHANGED advice
    /\ UNCHANGED <<circuit, Fp, input, fixed, enabled, copied, honest, verdict>>

\* region.assign_advice(|| "b", chip.config.b, 0, || self.b)?
IsEqualAssignB ==
    /\ circuit.name = "IsEqual"
    /\ pc = "assign_b"
    /\ \E ok \in BOOLEAN :
         IF ok
         THEN /\ advice' = [advice EXCEPT !["b"][0] = input.b]
              /\ pc' = "assign_zero"
              /\ UNCHANGED <<errors, result>>
         ELSE /\ Propagate("b")
              /\ UNCHANGED advice
    /\ UNCHANGED <<circuit, Fp, input, fixed, enabled, copied, honest, verdict>>

\* Value::<F>::known(F::ZERO)
ZeroConstant == 0

\* region.assign_fixed(|| "zero", chip.config.zero, 0, || Value::known(F::ZERO))?; Ok(())
IsEqualAssignZero ==
    /\ circuit.name = "IsEqual"
    /\ pc = "assign_zero"
    /\ \E ok \in BOOLEAN :
         IF ok
         THEN /\ fixed' = [fixed EXCEPT ![0] = ZeroConstant]
              /\ result' = "Ok"
              /\ pc' = "returned"
              /\ UNCHANGED errors
         ELSE /\ Propagate("zero")
              /\ UNCHANGED fixed
    /\ UNCHANGED <<circuit, Fp, input, advice, enabled, copied, honest, verdict>>

----------------------------------------------------------------------------
\* The advice columns a gadget constrains are handed in by its caller
\* (RangeCheckConfig::configure's `value`, IsZeroChip::configure's `value`
\* query and `value_inv`), who may witness any field element in them.

CallerColumns ==
    CASE circuit.name = "RangeCheck" -> {"value"}
      [] circuit.name = "IsZero"     -> {"value", "value_inv"}
      [] circuit.name = "IsEqual"    -> {}

WitnessAdvice ==
    /\ pc = "returned"
    /\ result = "Ok"
    /\ \E col \in CallerColumns, v \in Elems :
         advice' = [advice EXCEPT ![col][0] = v]
    /\ honest' = FALSE
    /\ UNCHANGED <<circuit, Fp, input, pc, fixed, enabled, copied, errors,
                   result, verdict>>

\* MockProver::run(..).unwrap() then verify(): every gate on every row, and
\* the copy constraints.
Verify ==
    /\ pc = "returned"
    /\ result = "Ok"
    /\ verdict' = IF GatesSatisfied /\ CopiesSatisfied THEN "ok" ELSE "err"
    /\ pc' = "verified"
    /\ UNCHANGED <<circuit, Fp, input, advice, fixed, enabled, copied, errors,
                   result, honest>>

Next ==
    \/ RangeCheckEnable
    \/ RangeCheckAssign
    \/ IsZeroEnable
    \/ IsZeroAssignValue
    \/ IsZeroChipAssign
    \/ IsZeroAssignOut
    \/ IsZeroConstrainInstance
    \/ IsEqualEnable
    \/ IsEqualAssignA
    \/ IsEqualAssignB
    \/ IsEqualAssignZero
    \/ WitnessAdvice
    \/ Verify

Spec == Init /\ [][Next]_vars

----------------------------------------------------------------------------
\* Properties

\* The field encodings of 0, 1, ..., RANGE-1.
InRange(v) == v \in {FromU64(i) : i \in 0..(RANGE - 1)}

\* inv0: 0 at 0, the multiplicative inverse elsewhere.
Inv0(v) == IF v = 0 THEN 0 ELSE CHOOSE w \in Elems : Mul(v, w) = 1

\* RangeCheck assign ran to completion and nobody else wrote the cell.
RangeCheckAssigned ==
    circuit.name = "RangeCheck" /\ honest /\ result = "Ok"

\* C1: RangeCheck membership.  After assign on the encoding of i, with the
\* selector enabled at row 0, the gate is satisfied (and verify accepts) for
\* every 0 <= i < RANGE, and is violated (verify rejects) for i = RANGE.
C1_RangeMembership ==
    RangeCheckAssigned =>
        /\ 0 \in enabled
        /\ InRange(input.value) => GatesSatisfied
        /\ input.value = FromU64(RANGE) => ~GatesSatisfied
        /\ pc = "verified" =>
             /\ InRange(input.value) => verdict = "ok"
             /\ input.value = FromU64(RANGE) => verdict = "err"

C1_Witness ==
    /\ RangeCheckAssigned
    /\ pc = "verified"
    /\ input.value = FromU64(RANGE)
    /\ verdict = "err"

\* C2: after RangeCheck assign(v) succeeds, the constrained advice cell at
\* row 0 holds v itself.
C2_WitnessIsInput ==
    RangeCheckAssigned => advice["value"][0] = input.value

\* C3: with the selector active, the registered RangeCheck gate evaluates to
\* selector * c * (1 - c) * ... * (RANGE-1 - c) on the cell value c and is
\* satisfied exactly when c is one of 0 .. RANGE-1, whoever wrote the cell.
C3_GateIsVanishingPolynomial ==
    (circuit.name = "RangeCheck" /\ 0 \in enabled) =>
        /\ RangeCheckGate(0) = Mul(q(0), range_check(RANGE, advice["value"][0]))
        /\ RangeCheckGate(0) = 0 <=> InRange(advice["value"][0])

IsZeroChipAssigned ==
    /\ circuit.name = "IsZero"
    /\ honest
    /\ pc \notin {"enable", "assign_value", "chip_assign"}
    /\ errors \cap {"enable", "value", "value_inv"} = {}

\* C5: IsZero completeness.  For every v, 0 included, assign writes inv0(v)
\* into value_inv, the gate is satisfied with value = v and the selector
\* active, and synthesize fails only when a region call returned an error.
C5_IsZeroCompleteness ==
    /\ IsZeroChipAssigned =>
        /\ 0 \in enabled
        /\ advice["value"][0] = input.value
        /\ advice["value_inv"][0] = Inv0(input.value)
        /\ IsZeroGate(0) = 0
    /\ (circuit.name = "IsZero" /\ result = "Err") => errors # {}

C5_Witness ==
    /\ IsZeroChipAssigned
    /\ input.value = 0
    /\ advice["value_inv"][0] = 0
    /\ pc = "verified"
    /\ verdict = "ok"

\* C6: at every row that satisfies the is_zero gate with the selector
\* active, is_zero_expression is 1 when value = 0 and 0 otherwise.
C6_IndicatorCorrect ==
    (circuit.name = "IsZero" /\ 0 \in enabled /\ IsZeroGate(0) = 0) =>
        is_zero_expression(0) = IF advice["value"][0] = 0 THEN 1 ELSE 0

C6_Witness ==
    /\ circuit.name = "IsZero"
    /\ 0 \in enabled
    /\ advice["value"][0] = 0
    /\ advice["value_inv"][0] # 0
    /\ IsZeroGate(0) = 0
    /\ is_zero_expression(0) = 1

\* C7: IsEqual.  With a and b written, the fixed zero cell holding 0 and the
\* selector enabled on the row, the gate is satisfied (verify accepts)
\* exactly when a = b.
C7_IsEqual ==
    (circuit.name = "IsEqual" /\ result = "Ok" /\ 0 \in enabled) =>
        /\ advice["a"][0] = input.a
        /\ advice["b"][0] = input.b
        /\ fixed[0] = 0
        /\ IsEqualGate(0) = 0 <=> input.a = input.b
        /\ pc = "verified" => (verdict = "ok" <=> input.a = input.b)

C7_Witness ==
    /\ circuit.name = "IsEqual"
    /\ 0 \in enabled
    /\ pc = "verified"
    /\ input.a # input.b
    /\ verdict = "err"

\* C8: the truth table documented on IsZeroChip::configure.  With the
\* selector active the gate accepts only (0, 0) and (x, 1/x), x # 0.
C8_DocTruthTable ==
    (circuit.name = "IsZero" /\ 0 \in enabled) =>
        (IsZeroGate(0) = 0 <=>
            \/ advice["value"][0] = 0 /\ advice["value_inv"][0] = 0
            \/ /\ advice["value"][0] # 0
               /\ Mul(advice["value"][0], advice["value_inv"][0]) = 1)

\* C9: IsEqual assignment never returns success after one of its steps
\* (enable, a, b, zero) failed.
C9_ErrorsPropagate ==
    (circuit.name = "IsEqual" /\ result = "Ok") => errors = {}

\* C10 as stated: RangeCheck assign stores 0 for every input, so the gate
\* is satisfied for any input.
C10_AnyInputStoresZero ==
    RangeCheckAssigned => (advice["value"][0] = 0 /\ GatesSatisfied)

\* C10 amended: RangeCheck assign stores 0, and the gate is satisfied,
\* exactly when the input is the encoding of one of 0 .. RANGE-1.
C10_ZeroIffInRange ==
    RangeCheckAssigned =>
        /\ advice["value"][0] = 0 <=> InRange(input.value)
        /\ GatesSatisfied <=> InRange(input.value)

C10_Witness ==
    /\ RangeCheckAssigned
    /\ input.value > RANGE
    /\ advice["value"][0] # 0
    /\ ~GatesSatisfied

----------------------------------------------------------------------------
\* Gate expressions as the constraint system stores them (plonk::Expression)

Constant(c) == [op |-> "Constant", c |-> c]
Selector == [op |-> "Selector"]
AdviceQuery(col) == [op |-> "Advice", col |-> col]
Negated(e) == [op |-> "Negated", e |-> e]
Sum(l, r) == [op |-> "Sum", l |-> l, r |-> r]
Product(l, r) == [op |-> "Product", l |-> l, r |-> r]

\* Expression::degree: a constant has degree 0, a selector or a column query
\* degree 1, a sum the larger and a product the sum of its operands' degrees.
RECURSIVE degree(_)
degree(e) ==
    CASE e.op = "Constant" -> 0
      [] e.op = "Selector" -> 1
      [] e.op = "Advice"   -> 1
      [] e.op = "Negated"  -> degree(e.e)
      [] e.op = "Sum"      ->
            IF degree(e.l) >= degree(e.r) THEN degree(e.l) ELSE degree(e.r)
      [] e.op = "Product"  -> degree(e.l) + degree(e.r)

\* The value of an expression at a row.
RECURSIVE Eval(_, _)
Eval(e, row) ==
    CASE e.op = "Constant" -> e.c % Fp
      [] e.op = "Selector" -> q(row)
      [] e.op = "Advice"   -> advice[e.col][row]
      [] e.op = "Negated"  -> Sub(0, Eval(e.e, row))
      [] e.op = "Sum"      -> Add(Eval(e.l, row), Eval(e.r, row))
      [] e.op = "Product"  -> Mul(Eval(e.l, row), Eval(e.r, row))

\* The advice columns an expression queries.
RECURSIVE ColumnsOf(_)
ColumnsOf(e) ==
    CASE e.op = "Constant" -> {}
      [] e.op = "Selector" -> {}
      [] e.op = "Advice"   -> {e.col}
      [] e.op = "Negated"  -> ColumnsOf(e.e)
      [] e.op = "Sum"      -> ColumnsOf(e.l) \cup ColumnsOf(e.r)
      [] e.op = "Product"  -> ColumnsOf(e.l) \cup ColumnsOf(e.r)

\* |meta| meta.query_selector(q_enable)
QEnableExpr == Selector

\* |meta| meta.query_advice(value, Rotation::cur())
ValueExpr == AdviceQuery("value")

\* Expression::Constant(F::ONE) - value.clone() * value_inv
IsZeroExpressionExpr ==
    Sum(Constant(1), Negated(Product(ValueExpr, AdviceQuery("value_inv"))))

\* Mutant: the selector factor is left out of the gate.
IsZeroGateExpr_mut == Product(ValueExpr, IsZeroExpressionExpr)

\* [q_enable * value * is_zero_expression.clone()]
IsZeroGateExpr == Product(Product(QEnableExpr, ValueExpr), IsZeroExpressionExpr)

\* Columns IsZeroChip::configure allocates itself: it calls create_gate only.
IsZeroAllocated == {}

\* C11 as stated: the is_zero gate, with the selector and a plain advice
\* query each counted as degree 1, has total degree 3, and IsZero uses no
\* column of its own besides the supplied value_inv.
C11_GateDegreeThree ==
    circuit.name = "IsZero" =>
        /\ degree(QEnableExpr) = 1
        /\ degree(ValueExpr) = 1
        /\ degree(IsZeroGateExpr) = 3
        /\ IsZeroAllocated = {}
        /\ ColumnsOf(IsZeroGateExpr) \ ColumnsOf(ValueExpr) = {"value_inv"}

\* C11 amended: the registered gate is the polynomial the prover evaluates,
\* its total degree is 4 (selector 1, value 1, 1 - value * value_inv 2),
\* and it queries no column besides value's and the supplied value_inv.
C11_GateDegreeFour ==
    circuit.name = "IsZero" =>
        /\ degree(QEnableExpr) = 1
        /\ degree(ValueExpr) = 1
        /\ degree(IsZeroExpressionExpr) = 2
        /\ degree(IsZeroGateExpr) = 4
        /\ \A row \in Rows :
             /\ Eval(IsZeroGateExpr, row) = IsZeroGate(row)
             /\ Eval(IsZeroExpressionExpr, row) = is_zero_expression(row)
        /\ IsZeroAllocated = {}
        /\ ColumnsOf(IsZeroGateExpr) \ ColumnsOf(ValueExpr) = {"value_inv"}

C11_Witness ==
    /\ circuit.name = "IsZero"
    /\ pc = "verified"
    /\ degree(IsZeroGateExpr) = 4
    /\ Eval(IsZeroGateExpr, 0) # 0
    /\ verdict = "err"

====
